---- MODULE Spec2Model ----
(***************************************************************************)
(* A model of HypothesisAPIClient (src/hypothesis.js): the OAuth login     *)
(* sequence, logout, the dotted-method request helper and fetchAll.        *)
(*                                                                         *)
(* JavaScript values are represented by strings: a primitive string by     *)
(* itself, null and undefined by the two reserved strings below, and an    *)
(* object by its name in Heap, which gives the object's own properties.    *)
(* A method string is represented by the list of its segments, that is by  *)
(* the result of method.split('.'), which is never the empty list.         *)
(***************************************************************************)
EXTENDS Integers, Sequences, FiniteSets, TLC

\* ---------------------------------------------------------------- bounds
MaxLogins == 2
MaxRequests == 4

\* ------------------------------------------------------- JavaScript values
Null == "<null>"
Undefined == "<undefined>"
FnObject == "<function Object>"
FnFunction == "<function Function>"
FnString == "<function String>"
BuiltinFns == {FnObject, FnFunction, FnString}

\* The objects the model's servers can put in a JSON body: token responses,
\* discovery documents and the route objects inside them.
Heap ==
  [ tokenBodyA       |-> [access_token |-> "tokA", token_type |-> "bearer"],
    tokenBodyB       |-> [access_token |-> "tokB", token_type |-> "bearer"],
    tokenBodyError   |-> [error |-> "invalid_grant"],
    discoveryA       |-> [links |-> "linksA"],
    discoveryNoLinks |-> [message |-> "not found"],
    linksA           |-> [profile |-> "linksA_profile", search |-> "linksA_search"],
    linksA_profile   |-> [read |-> "linksA_profile_read"],
    linksA_profile_read |-> [method |-> "GET", url |-> "http://h/api/profile"],
    linksA_search    |-> [method |-> "GET", url |-> "http://h/api/search"] ]

IsObject(v) == v \in DOMAIN Heap

\* !v
Falsy(v) == v \in {Null, Undefined, ""}

\* v[k] for v other than null and undefined: an own property, else the one
\* property every value inherits from its prototype that the method names
\* below can reach, else undefined.
GetProp(v, k) ==
  IF IsObject(v) /\ k \in DOMAIN Heap[v] THEN Heap[v][k]
  ELSE IF k = "constructor"
       THEN (IF IsObject(v) THEN FnObject
             ELSE IF v \in BuiltinFns THEN FnFunction
             ELSE FnString)
       ELSE Undefined

\* String(v), as URLSearchParams.append applies it to a value.
ToStr(v) ==
  IF v = Undefined THEN "undefined"
  ELSE IF v = Null THEN "null"
  ELSE v

\* new URL(s) succeeds only on an absolute URL.
IsAbsoluteURL(s) == s \in {"http://h/api/profile", "http://h/api/search"}

\* ------------------------------------------------------------------ errors
NoError == "<none>"
TypeError == "TypeError"
SyntaxError == "SyntaxError"
NetworkError == "TypeError: Failed to fetch"

\* --------------------------------------------------------------- request()
Methods ==
  { <<"profile", "read">>, <<"search">>, <<"profile">>, <<"nosuch">>,
    <<"profile", "nosuch">>, <<"search", "url", "nosuch">>,
    <<"constructor">> }

\* The method strings request() is called with between the steps of logins:
\* a leaf, a name that is absent and a name that every object inherits.
SessionMethods == { <<"profile", "read">>, <<"nosuch">>, <<"constructor">> }

NoCall == [kind |-> "none", method |-> <<>>, error |-> NoError,
           verb |-> Undefined, url |-> Undefined, query |-> <<>>,
           auth |-> <<>>, body |-> Null]

\* Walk that resolves the first segment only.
RECURSIVE Walk_FirstSegmentOnly(_, _, _)
Walk_FirstSegmentOnly(meta, path, i) ==
  IF i > 1 THEN [threw |-> NoError, meta |-> meta]
  ELSE IF meta \in {Null, Undefined} THEN [threw |-> TypeError, meta |-> meta]
  ELSE IF Falsy(GetProp(meta, path[i])) THEN [threw |-> "Unknown method", meta |-> meta]
  ELSE Walk_FirstSegmentOnly(GetProp(meta, path[i]), path, i + 1)

\* path.forEach(...): the walk from meta over path[i..]; the result is the
\* node reached, or the exception thrown on the way.
RECURSIVE Walk(_, _, _)
Walk(meta, path, i) ==
  IF i > Len(path) THEN [threw |-> NoError, meta |-> meta]
  ELSE IF meta \in {Null, Undefined} THEN [threw |-> TypeError, meta |-> meta]
  ELSE IF Falsy(GetProp(meta, path[i])) THEN [threw |-> "Unknown method", meta |-> meta]
  ELSE Walk(GetProp(meta, path[i]), path, i + 1)

\* AuthHeader with the test of this.token left out.
AuthHeader_Unconditional(tok) == <<"Bearer", tok>>

\* The headers object request() builds.
AuthHeader(tok) == IF Falsy(tok) THEN <<>> ELSE <<"Bearer", tok>>

\* The synchronous part of request(method, data, params) on a client whose
\* fields are lnk and tok: either an exception or the fetch it issues.
RequestCall(lnk, tok, method, data, params) ==
  LET w == Walk(lnk, method, 1) IN
  IF w.threw = "Unknown method"
    THEN [NoCall EXCEPT !.kind = "throw", !.method = method, !.error = "Unknown method"]
  ELSE IF w.threw = TypeError
    THEN [NoCall EXCEPT !.kind = "throw", !.method = method, !.error = TypeError]
  ELSE IF ~IsAbsoluteURL(GetProp(w.meta, "url"))
    THEN [NoCall EXCEPT !.kind = "throw", !.method = method, !.error = TypeError]
  ELSE [kind |-> "fetch", method |-> method, error |-> NoError,
        verb |-> GetProp(w.meta, "method"), url |-> GetProp(w.meta, "url"),
        query |-> params, auth |-> AuthHeader(tok), body |-> data]

\* ------------------------------------------------------------------- state
Logins == 1..MaxLogins

VARIABLES
  token,       \* this.token
  links,       \* this.links
  logins,      \* per login() call: its position and its locals
  listeners,   \* the login calls whose authRespListener is registered
  call,        \* the request() call made by the last step, if any
  sinceLogout, \* logout() has run and no login has stored a session since
  fa,          \* the fetchAll() call: its position, its locals and its outcome
  reqs,        \* the search requests fetchAll has sent, in order
  resps,       \* the responses they settled to, in order
  writer,      \* the login() call that last assigned this.token, this.links
  atLogout,    \* while sinceLogout: the login() calls made before that logout
  ui,          \* App: this.state of the component
  chain        \* App: per login submit, the position of its promise chain

fvars == <<fa, reqs, resps>>
uvars == <<ui, chain>>
vars == <<token, links, logins, listeners, call, sinceLogout, fa, reqs, resps,
          writer, atLogout, ui, chain>>

\* Nobody: the fields as the constructor or logout() left them.
NoWriter == [token |-> 0, links |-> 0]

NotStarted == [pc |-> "idle", code |-> Undefined, assertion |-> Undefined,
               access_token |-> Undefined, error |-> NoError]

\* let total = null: the numeric local total holds NullNum for null.
NullNum == -1

FetchNotStarted == [pc |-> "idle", anns |-> <<>>, total |-> NullNum,
                    result |-> <<>>, error |-> NoError]

\* this.state as the App constructor sets it (clientId is left out: it is only
\* passed on to login()).
AppState0 == [isLoggedIn |-> FALSE, authorizing |-> FALSE, fetching |-> FALSE,
              profile |-> Null, error |-> Null, annotationStats |-> Null]

\* No login form submitted yet.
NoChain == [pc |-> "none", req |-> NoCall, error |-> NoError]

Init ==
  /\ ui = AppState0
  /\ chain = [l \in Logins |-> NoChain]
  /\ token = Null
  /\ links = Null
  /\ logins = [l \in Logins |-> NotStarted]
  /\ listeners = {}
  /\ call = NoCall
  /\ sinceLogout = FALSE
  /\ fa = FetchNotStarted
  /\ reqs = <<>>
  /\ resps = <<>>
  /\ writer = NoWriter
  /\ atLogout = 0

\* ------------------------------------------------------------------ logout
\* logout() without the assignment to this.token.
Logout_KeepsToken ==
  /\ token' = token
  /\ links' = Null
  /\ sinceLogout' = TRUE
  /\ writer' = NoWriter
  /\ atLogout' = Cardinality({l \in Logins : logins[l].pc # "idle"})
  /\ call' = NoCall
  /\ UNCHANGED <<logins, listeners>>
  /\ UNCHANGED fvars

Logout ==
  /\ token' = Null
  /\ links' = Null
  /\ sinceLogout' = TRUE
  /\ writer' = NoWriter
  /\ atLogout' = Cardinality({l \in Logins : logins[l].pc # "idle"})
  /\ call' = NoCall
  /\ UNCHANGED <<logins, listeners>>
  /\ UNCHANGED fvars

\* ----------------------------------------------------------------- request
Request(method) ==
  /\ call' = RequestCall(links, token, method, Null, <<>>)
  /\ UNCHANGED <<token, links, logins, listeners, sinceLogout, writer, atLogout>>
  /\ UNCHANGED fvars

\* request(method, data, params) with a body and query parameters.  params is
\* the list of the object's entries in the order of Object.keys.
RequestData == {Null, "{}"}
RequestParams ==
  { <<>>, << <<"user", "bob">> >>, << <<"user", "bob">>, <<"limit", "10">> >> }

RequestWith(method, data, params) ==
  /\ call' = RequestCall(links, token, method, data, params)
  /\ UNCHANGED <<token, links, logins, listeners, sinceLogout, writer, atLogout>>
  /\ UNCHANGED fvars

\* ------------------------------------------------------------------- login
\* The data of the message events the window can receive.
Messages ==
  { [typeof |-> "string", data |-> "hello", type |-> Undefined, code |-> Undefined],
    [typeof |-> "object", data |-> Null, type |-> Undefined, code |-> Undefined],
    [typeof |-> "object", data |-> "msg", type |-> "other", code |-> Undefined],
    [typeof |-> "object", data |-> "msg", type |-> "authorization_response", code |-> "c1"],
    [typeof |-> "object", data |-> "msg", type |-> "authorization_response", code |-> Undefined] }

\* What fetch(...).then(r => r.json()) can settle to.
TokenResponses ==
  { [kind |-> "networkError", body |-> Undefined],
    [kind |-> "notJSON", body |-> Undefined],
    [kind |-> "json", body |-> Null],
    [kind |-> "json", body |-> "tokenBodyError"],
    [kind |-> "json", body |-> "tokenBodyA"],
    [kind |-> "json", body |-> "tokenBodyB"] }

DiscoveryResponses ==
  { [kind |-> "networkError", body |-> Undefined],
    [kind |-> "notJSON", body |-> Undefined],
    [kind |-> "json", body |-> Null],
    [kind |-> "json", body |-> "discoveryNoLinks"],
    [kind |-> "json", body |-> "discoveryA"] }

\* The rejection reason of fetch(...).then(r => r.json()), if it rejects.
FetchError(resp) ==
  CASE resp.kind = "networkError" -> NetworkError
    [] resp.kind = "notJSON" -> SyntaxError
    [] OTHER -> NoError

\* authRespListener without the removeEventListener call.
authRespListener_NeverRemoved(event) ==
  IF event.typeof # "object"
    THEN [threw |-> FALSE, resolve |-> FALSE, remove |-> FALSE]
  ELSE IF event.data = Null
    THEN [threw |-> TRUE, resolve |-> FALSE, remove |-> FALSE]
  ELSE [threw |-> FALSE, resolve |-> event.type = "authorization_response",
        remove |-> FALSE]

\* One run of authRespListener on an event: whether it throws, whether it
\* calls resolve(event.data) and whether it removes itself.
authRespListener(event) ==
  IF event.typeof # "object"
    THEN [threw |-> FALSE, resolve |-> FALSE, remove |-> FALSE]
  ELSE IF event.data = Null
    THEN [threw |-> TRUE, resolve |-> FALSE, remove |-> FALSE]
  ELSE [threw |-> FALSE, resolve |-> event.type = "authorization_response",
        remove |-> TRUE]

\* login(clientId) up to its first await: the listener is registered and the
\* popup is opened (the popup itself is not part of the state).  Calls are
\* numbered in the order they are made.
LoginCall(l) ==
  /\ logins[l].pc = "idle"
  /\ \A k \in Logins : k < l => logins[k].pc # "idle"
  /\ logins' = [logins EXCEPT ![l].pc = "waitAuth"]
  /\ listeners' = listeners \cup {l}
  /\ call' = NoCall
  /\ UNCHANGED <<token, links, sinceLogout, writer, atLogout>>
  /\ UNCHANGED fvars

\* A message event is dispatched to every registered listener.  A login whose
\* authResponse promise is resolved by it resumes in the same task, before any
\* other event is handled: it reads code from the data and posts the token
\* request.  resolve() on a promise that is already resolved does nothing.
Deliver(event) ==
  LET r == authRespListener(event) IN
  /\ listeners # {}
  /\ logins' = [l \in Logins |->
       IF l \in listeners /\ r.resolve /\ logins[l].pc = "waitAuth"
         THEN [logins[l] EXCEPT !.pc = "tokenFetch", !.code = event.code,
                                !.assertion = ToStr(event.code)]
         ELSE logins[l]]
  /\ listeners' = IF r.remove THEN {} ELSE listeners
  /\ call' = NoCall
  /\ UNCHANGED <<token, links, sinceLogout, writer, atLogout>>
  /\ UNCHANGED fvars

\* The token request settles: const { access_token } = await fetch(...), then
\* the discovery request is sent.
TokenResponse(l, resp) ==
  /\ logins[l].pc = "tokenFetch"
  /\ logins' = [logins EXCEPT ![l] =
       IF FetchError(resp) # NoError
         THEN [@ EXCEPT !.pc = "rejected", !.error = FetchError(resp)]
       ELSE IF resp.body \in {Null, Undefined}
         THEN [@ EXCEPT !.pc = "rejected", !.error = TypeError]
       ELSE [@ EXCEPT !.pc = "discoveryFetch",
                      !.access_token = GetProp(resp.body, "access_token")]]
  /\ call' = NoCall
  /\ UNCHANGED <<token, links, listeners, sinceLogout, writer, atLogout>>
  /\ UNCHANGED fvars

\* The discovery request settles: this.token = access_token, then
\* this.links = links.links, then the login returns access_token.
DiscoveryResponse(l, resp) ==
  /\ logins[l].pc = "discoveryFetch"
  /\ call' = NoCall
  /\ UNCHANGED listeners
  /\ UNCHANGED fvars
  /\ IF FetchError(resp) # NoError
       THEN /\ logins' = [logins EXCEPT ![l].pc = "rejected",
                                        ![l].error = FetchError(resp)]
            /\ UNCHANGED <<token, links, sinceLogout, writer, atLogout>>
     ELSE IF resp.body \in {Null, Undefined}
       THEN /\ token' = logins[l].access_token
            /\ logins' = [logins EXCEPT ![l].pc = "rejected", ![l].error = TypeError]
            /\ sinceLogout' = FALSE
            /\ writer' = [writer EXCEPT !.token = l]
            /\ atLogout' = 0
            /\ UNCHANGED links
     ELSE /\ token' = logins[l].access_token
          /\ links' = GetProp(resp.body, "links")
          /\ logins' = [logins EXCEPT ![l].pc = "resolved"]
          /\ sinceLogout' = FALSE
          /\ writer' = [token |-> l, links |-> l]
          /\ atLogout' = 0

\* ---------------------------------------------------------------- fetchAll
Limit == 1000
PageSizes == {0, 500, 1000}
Totals == {0, 1000, 2500}

Param(query, k) == (CHOOSE p \in {query[i] : i \in DOMAIN query} : p[1] = k)[2]

\* What this.request('search', ...) can settle to: a failed fetch, a body
\* that is not JSON, the JSON value null, or a JSON object with a total and
\* (unless the field is missing) a page of rows.  A page holds at most limit
\* rows, numbered by their position in the result set.
SearchResponses(req) ==
  { [kind |-> "networkError", body |-> Undefined, total |-> 0, hasRows |-> FALSE, rows |-> <<>>],
    [kind |-> "notJSON", body |-> Undefined, total |-> 0, hasRows |-> FALSE, rows |-> <<>>],
    [kind |-> "json", body |-> Null, total |-> 0, hasRows |-> FALSE, rows |-> <<>>],
    [kind |-> "json", body |-> "searchResult", total |-> 2500, hasRows |-> FALSE, rows |-> <<>>],
    [kind |-> "json", body |-> "searchResult", total |-> NullNum, hasRows |-> TRUE, rows |-> <<>>] }
  \cup
  { [kind |-> "json", body |-> "searchResult", total |-> t, hasRows |-> TRUE,
     rows |-> [i \in 1..n |-> Param(req.query, "offset") + i]] :
      t \in Totals, n \in {k \in PageSizes : k <= Param(req.query, "limit")} }

\* The exception the loop body raises on a response, if any: the rejection of
\* the request, searchResult.total on null, or spreading rows that are missing.
SearchError(resp) ==
  IF FetchError(resp) # NoError THEN FetchError(resp)
  ELSE IF resp.body \in {Null, Undefined} THEN TypeError
  ELSE IF ~resp.hasRows THEN TypeError
  ELSE NoError

\* FetchAllLoop with the loop condition anns.length <= total.
FetchAllLoop_LoopsWhileNotAbove(anns, total) ==
  IF total = NullNum \/ Len(anns) <= total
    THEN LET c == RequestCall(links, token, <<"search">>, Null,
                              << <<"offset", Len(anns)>>, <<"limit", Limit>> >>) IN
         IF c.kind = "throw"
           THEN /\ fa' = [pc |-> "rejected", anns |-> <<>>, total |-> NullNum,
                          result |-> <<>>, error |-> c.error]
                /\ UNCHANGED reqs
           ELSE /\ Len(reqs) < MaxRequests
                /\ fa' = [pc |-> "awaiting", anns |-> anns, total |-> total,
                          result |-> <<>>, error |-> NoError]
                /\ reqs' = Append(reqs, c)
    ELSE /\ fa' = [pc |-> "resolved", anns |-> <<>>, total |-> NullNum,
                   result |-> anns, error |-> NoError]
         /\ UNCHANGED reqs

\* One evaluation of the while condition with locals anns and total, and what
\* follows it: the return, or the next this.request('search', ...), which
\* either throws or sends a request.
FetchAllLoop(anns, total) ==
  IF total = NullNum \/ Len(anns) < total
    THEN LET c == RequestCall(links, token, <<"search">>, Null,
                              << <<"offset", Len(anns)>>, <<"limit", Limit>> >>) IN
         IF c.kind = "throw"
           THEN /\ fa' = [pc |-> "rejected", anns |-> <<>>, total |-> NullNum,
                          result |-> <<>>, error |-> c.error]
                /\ UNCHANGED reqs
           ELSE /\ Len(reqs) < MaxRequests
                /\ fa' = [pc |-> "awaiting", anns |-> anns, total |-> total,
                          result |-> <<>>, error |-> NoError]
                /\ reqs' = Append(reqs, c)
    ELSE /\ fa' = [pc |-> "resolved", anns |-> <<>>, total |-> NullNum,
                   result |-> anns, error |-> NoError]
         /\ UNCHANGED reqs

\* SearchSettles with a failed page caught and the rows so far returned.
SearchSettles_ReturnsPartial(resp) ==
  /\ resps' = Append(resps, resp)
  /\ UNCHANGED <<token, links, logins, listeners, call, sinceLogout, writer, atLogout>>
  /\ IF SearchError(resp) # NoError
       THEN /\ fa' = [pc |-> "resolved", anns |-> <<>>, total |-> NullNum,
                      result |-> fa.anns, error |-> NoError]
            /\ UNCHANGED reqs
       ELSE FetchAllLoop(fa.anns \o resp.rows, resp.total)

\* The loop body after the await: the request's outcome is thrown or its
\* total and rows are taken, and the loop goes round.
SearchSettles(resp) ==
  /\ resps' = Append(resps, resp)
  /\ UNCHANGED <<token, links, logins, listeners, call, sinceLogout, writer, atLogout>>
  /\ IF SearchError(resp) # NoError
       THEN /\ fa' = [pc |-> "rejected", anns |-> <<>>, total |-> NullNum,
                      result |-> <<>>, error |-> SearchError(resp)]
            /\ UNCHANGED reqs
       ELSE FetchAllLoop(fa.anns \o resp.rows, resp.total)

FetchAllCall ==
  /\ fa.pc = "idle"
  /\ FetchAllLoop(<<>>, NullNum)
  /\ UNCHANGED <<token, links, logins, listeners, call, sinceLogout, writer, atLogout, resps>>

\* The search request in flight settles and the loop body runs on.
SearchResponse ==
  /\ fa.pc = "awaiting"
  /\ \E resp \in SearchResponses(reqs[Len(reqs)]) : SearchSettles(resp)

\* A client that fetchAll() can be called on: new, or after a login.
LoggedIn(tok) == [NotStarted EXCEPT !.pc = "resolved", !.code = "c1",
                                    !.assertion = "c1", !.access_token = tok]

InitFetch ==
  /\ \/ /\ token = Null
        /\ links = Null
        /\ logins = [l \in Logins |-> NotStarted]
        /\ writer = NoWriter
     \/ /\ token = "tokA"
        /\ links = "linksA"
        /\ logins = [l \in Logins |-> IF l = 1 THEN LoggedIn("tokA") ELSE NotStarted]
        /\ writer = [token |-> 1, links |-> 1]
  /\ atLogout = 0
  /\ listeners = {}
  /\ call = NoCall
  /\ sinceLogout = FALSE
  /\ ui = AppState0
  /\ chain = [l \in Logins |-> NoChain]
  /\ fa = FetchNotStarted
  /\ reqs = <<>>
  /\ resps = <<>>

\* The clients request() can be called on: new, after a login that resolved
\* (with or without an access_token and links in the responses), or after a
\* login that stored its token and then failed on a null discovery body.
AfterLogin(tok, outcome) ==
  [NotStarted EXCEPT !.pc = outcome, !.code = "c1", !.assertion = "c1",
                     !.access_token = tok,
                     !.error = IF outcome = "rejected" THEN TypeError ELSE NoError]

InitRequest ==
  /\ \/ /\ token = Null
        /\ links = Null
        /\ logins = [l \in Logins |-> NotStarted]
        /\ writer = NoWriter
     \/ \E tok \in {"tokA", "tokB", Undefined}, lnk \in {"linksA", Undefined} :
        /\ token = tok
        /\ links = lnk
        /\ logins = [l \in Logins |->
                       IF l = 1 THEN AfterLogin(tok, "resolved") ELSE NotStarted]
        /\ writer = [token |-> 1, links |-> 1]
     \/ \E tok \in {"tokA", "tokB", Undefined} :
        /\ token = tok
        /\ links = Null
        /\ logins = [l \in Logins |->
                       IF l = 1 THEN AfterLogin(tok, "rejected") ELSE NotStarted]
        /\ writer = [token |-> 1, links |-> 0]
  /\ listeners = {}
  /\ call = NoCall
  /\ sinceLogout = FALSE
  /\ atLogout = 0
  /\ ui = AppState0
  /\ chain = [l \in Logins |-> NoChain]
  /\ fa = FetchNotStarted
  /\ reqs = <<>>
  /\ resps = <<>>

NextRequest ==
  \/ /\ \E m \in Methods, d \in RequestData, p \in RequestParams : RequestWith(m, d, p)
     /\ UNCHANGED uvars
  \/ /\ Logout
     /\ UNCHANGED uvars

SpecRequest == InitRequest /\ [][NextRequest]_vars

NextFetch ==
  \/ /\ FetchAllCall
     /\ UNCHANGED uvars
  \/ /\ SearchResponse
     /\ UNCHANGED uvars
  \/ /\ Logout
     /\ UNCHANGED uvars

SpecFetch == InitFetch /\ [][NextFetch]_vars

\* fetchAll() keeps nothing of a request once its page is appended to anns
\* (searchResult is local to the loop body): the record of the requests and
\* responses that are over is dropped, the request in flight stays.
TrimLog ==
  /\ fa.pc = "awaiting"
  /\ Len(reqs) > 1
  /\ reqs' = << reqs[Len(reqs)] >>
  /\ resps' = <<>>
  /\ UNCHANGED <<token, links, logins, listeners, call, sinceLogout, writer, atLogout, fa>>

NextFetchLive ==
  \/ /\ FetchAllCall
     /\ UNCHANGED uvars
  \/ /\ SearchResponse
     /\ UNCHANGED uvars
  \/ /\ TrimLog
     /\ UNCHANGED uvars
  \/ /\ Logout
     /\ UNCHANGED uvars

\* Every search request in flight eventually settles (fetch() settles its
\* promise, and the continuation of the await then runs).
SpecFetchLive == InitFetch /\ [][NextFetchLive]_vars /\ WF_vars(SearchResponse /\ UNCHANGED uvars)

Next ==
  \/ /\ \E l \in Logins : LoginCall(l)
     /\ UNCHANGED uvars
  \/ /\ \E e \in Messages : Deliver(e)
     /\ UNCHANGED uvars
  \/ /\ \E l \in Logins, r \in TokenResponses : TokenResponse(l, r)
     /\ UNCHANGED uvars
  \/ /\ \E l \in Logins, r \in DiscoveryResponses : DiscoveryResponse(l, r)
     /\ UNCHANGED uvars
  \/ /\ Logout
     /\ UNCHANGED uvars
  \/ /\ \E m \in SessionMethods : Request(m)
     /\ UNCHANGED uvars

Spec == Init /\ [][Next]_vars

\* --------------------------------------------------------------------- App
\* render(): the login form, the profile view (which holds the Logout
\* button) and the error message.
LoginFormRendered(u) == ~u.isLoggedIn /\ ~u.authorizing
ProfileInfoRendered(u) == ~Falsy(u.profile)
ErrorRendered(u) == ~Falsy(u.error)

\* What this.client.request('profile.read') can settle to.
ProfileResponses ==
  { [kind |-> "networkError", body |-> Undefined],
    [kind |-> "notJSON", body |-> Undefined],
    [kind |-> "json", body |-> Null],
    [kind |-> "json", body |-> "profileA"] }

\* What this.client.fetchAll() can settle to: the annotations, from which the
\* statistics are computed, or a rejection.
FetchAllOutcomes ==
  { [kind |-> "resolved", error |-> NoError],
    [kind |-> "rejected", error |-> TypeError],
    [kind |-> "rejected", error |-> NetworkError] }

\* The setState calls of _login's three handlers.
AppLoginResolved(u) ==
  [u EXCEPT !.authorizing = FALSE, !.isLoggedIn = TRUE, !.fetching = TRUE]

AppProfileRead(u, profile) == [u EXCEPT !.fetching = FALSE, !.profile = profile]

\* The catch handler without the reset of fetching.
AppCatch_KeepsFetching(u, err) == [u EXCEPT !.authorizing = FALSE, !.error = err]

AppCatch(u, err) ==
  [u EXCEPT !.authorizing = FALSE, !.fetching = FALSE, !.error = err]

Failed(err) == [pc |-> "failed", req |-> NoCall, error |-> err]

\* _login: the form is submitted; setState, then this.client.login(clientId).
AppSubmit(l) ==
  /\ LoginFormRendered(ui)
  /\ LoginCall(l)
  /\ ui' = [ui EXCEPT !.authorizing = TRUE, !.error = Null]
  /\ chain' = [chain EXCEPT ![l].pc = "login"]

\* The handlers attached to this.client.login(clientId) run in the task that
\* settles the login: the catch handler when it rejects; when it resolves,
\* the first then handler, whose this.client.request('profile.read') either
\* sends the request or throws, which again runs the catch handler.
AppLoginSettles ==
  LET settled == {l \in Logins : /\ chain[l].pc = "login"
                                 /\ logins'[l].pc \in {"resolved", "rejected"}}
  IN
  IF settled = {} THEN UNCHANGED uvars
  ELSE LET l == CHOOSE k \in settled : TRUE
           c == RequestCall(links', token', <<"profile", "read">>, Null, <<>>)
       IN
       IF logins'[l].pc = "rejected"
         THEN /\ ui' = AppCatch(ui, logins'[l].error)
              /\ chain' = [chain EXCEPT ![l] = Failed(logins'[l].error)]
       ELSE IF c.kind = "throw"
         THEN /\ ui' = AppCatch(AppLoginResolved(ui), c.error)
              /\ chain' = [chain EXCEPT ![l] = Failed(c.error)]
       ELSE /\ ui' = AppLoginResolved(ui)
            /\ chain' = [chain EXCEPT ![l] = [pc |-> "profile", req |-> c,
                                              error |-> NoError]]

\* The profile.read request settles: the catch handler, or the second then
\* handler, which stores the profile and calls this.client.fetchAll(); req
\* is the first search request of that call.
AppProfileResponse(l, resp) ==
  /\ chain[l].pc = "profile"
  /\ call' = NoCall
  /\ UNCHANGED <<token, links, logins, listeners, sinceLogout, writer, atLogout>>
  /\ UNCHANGED fvars
  /\ IF FetchError(resp) # NoError
       THEN /\ ui' = AppCatch(ui, FetchError(resp))
            /\ chain' = [chain EXCEPT ![l] = Failed(FetchError(resp))]
       ELSE /\ ui' = AppProfileRead(ui, resp.body)
            /\ chain' = [chain EXCEPT ![l] =
                 [pc |-> "fetchAll", error |-> NoError,
                  req |-> RequestCall(links, token, <<"search">>, Null,
                                      << <<"offset", 0>>, <<"limit", Limit>> >>)]]

\* this.client.fetchAll() settles: the statistics are stored, or the inner
\* catch handler stores the error.  A call whose first request() threw can
\* only reject, with that error.
AppFetchAllSettles(l, outcome) ==
  /\ chain[l].pc = "fetchAll"
  /\ chain[l].req.kind = "throw"
       => (outcome.kind = "rejected" /\ outcome.error = chain[l].req.error)
  /\ call' = NoCall
  /\ UNCHANGED <<token, links, logins, listeners, sinceLogout, writer, atLogout>>
  /\ UNCHANGED fvars
  /\ IF outcome.kind = "resolved"
       THEN /\ ui' = [ui EXCEPT !.annotationStats = "stats"]
            /\ chain' = [chain EXCEPT ![l] = [pc |-> "done", req |-> NoCall,
                                              error |-> NoError]]
       ELSE /\ ui' = [ui EXCEPT !.error = outcome.error]
            /\ chain' = [chain EXCEPT ![l] = [pc |-> "fetchAllFailed", req |-> NoCall,
                                              error |-> outcome.error]]

\* _logout: the Logout button of the profile view is clicked.
AppLogout ==
  /\ ProfileInfoRendered(ui)
  /\ ui' = [ui EXCEPT !.annotationStats = Null, !.isLoggedIn = FALSE,
                      !.profile = Null]
  /\ Logout
  /\ UNCHANGED chain

NextApp ==
  \/ \E l \in Logins : AppSubmit(l)
  \/ /\ \E e \in Messages : Deliver(e)
     /\ AppLoginSettles
  \/ /\ \E l \in Logins, r \in TokenResponses : TokenResponse(l, r)
     /\ AppLoginSettles
  \/ /\ \E l \in Logins, r \in DiscoveryResponses : DiscoveryResponse(l, r)
     /\ AppLoginSettles
  \/ \E l \in Logins, r \in ProfileResponses : AppProfileResponse(l, r)
  \/ \E l \in Logins, o \in FetchAllOutcomes : AppFetchAllSettles(l, o)
  \/ AppLogout

SpecApp == Init /\ [][NextApp]_vars

\* ================================================================= claims
\* Every segment of method is an own property at its position in the route
\* table tab.
RECURSIVE InTable(_, _, _)
InTable(node, method, i) ==
  IF i > Len(method) THEN TRUE
  ELSE /\ IsObject(node)
       /\ method[i] \in DOMAIN Heap[node]
       /\ InTable(Heap[node][method[i]], method, i + 1)

IsUnknownMethod(c) == c.kind = "throw" /\ c.error = "Unknown method"

\* C1: a request() made after logout() (and before any login stores a
\* session again) fails as Unknown Method naming the method, whatever the
\* method; it sends nothing.
C1_RequestAfterLogoutIsUnknownMethod ==
  (sinceLogout /\ call.kind # "none") => IsUnknownMethod(call)

\* C2: with a populated route table, a request() whose method has a segment
\* that is absent at its position in the table fails as Unknown Method naming
\* the method and sends nothing.
C2_AbsentSegmentIsUnknownMethod ==
  (call.kind # "none" /\ IsObject(links) /\ ~InTable(links, call.method, 1))
    => IsUnknownMethod(call)

\* C3: a login() that rejects leaves this.token and this.links as they were:
\* the step in which a login fails changes neither.
C3_FailedLoginStoresNothing ==
  [][\A l \in Logins :
       (logins[l].pc # "rejected" /\ logins'[l].pc = "rejected")
         => (token' = token /\ links' = links)]_vars

\* C4: a request sent by request() with an Authorization header follows a
\* login() that resolved, and the header is Bearer followed by this.token as
\* it is at the call; with no token held, the request has no such header.
C4_AuthorizationHeaderIsTheHeldToken ==
  call.kind = "fetch" =>
    /\ call.auth # <<>> =>
         /\ \E l \in Logins : logins[l].pc = "resolved"
         /\ call.auth = <<"Bearer", token>>
    /\ token \in {Null, Undefined} => call.auth = <<>>

C4_Witness ==
  /\ call.kind = "fetch"
  /\ call.auth = <<"Bearer", "tokB">>
  /\ sinceLogout = FALSE

\* C5: a token is never held while the route table is null.
C5_NoTokenWithoutRouteTable ==
  ~(token \notin {Null, Undefined} /\ links = Null)

\* C6: once a login's listener has been given an authorization_response, the
\* listener is no longer registered and the login has sent its one token
\* request; a message delivered after that leaves the login as it is.
C6_ListenerIsOneShot ==
  /\ [](\A l \in Logins :
          logins[l].pc \notin {"idle", "waitAuth"}
            => (l \notin listeners /\ logins[l].assertion # Undefined))
  /\ [][\A l \in Logins :
          (logins[l].pc \notin {"idle", "waitAuth"} /\ \E e \in Messages : Deliver(e))
            => logins'[l] = logins[l]]_vars

C6_Witness ==
  \E l, k \in Logins :
    /\ logins[l].pc = "discoveryFetch"
    /\ logins[k].pc = "tokenFetch"
    /\ listeners = {}

\* C7: a message that is not an authorization_response does not cost a
\* waiting login its listener: a login that waits for the authorization
\* response has its listener registered.
C7_OtherMessagesAreNotConsumed ==
  \A l \in Logins : logins[l].pc = "waitAuth" => l \in listeners

\* C8: a login resolved by an authorization_response without code does not
\* post assertion=undefined and then resolve.
C8_MissingCodeFailsLogin ==
  \A l \in Logins :
    ~(logins[l].code = Undefined /\ logins[l].assertion = "undefined"
      /\ logins[l].pc = "resolved")

\* The rows of the pages received, in the order received.
RECURSIVE ConcatRows(_)
ConcatRows(rs) ==
  IF Len(rs) = 0 THEN <<>>
  ELSE ConcatRows(SubSeq(rs, 1, Len(rs) - 1)) \o rs[Len(rs)].rows

\* A response that gave fetchAll a total and a page of rows.
IsPage(resp) == resp.kind = "json" /\ resp.body = "searchResult" /\ resp.hasRows

Offsets == [i \in DOMAIN reqs |-> Param(reqs[i].query, "offset")]

Min(a, b) == IF a < b THEN a ELSE b

\* The server holds 2500 rows and serves them in pages of up to 1000.
Serves2500 ==
  /\ resps # <<>>
  /\ \A i \in DOMAIN resps :
       /\ IsPage(resps[i])
       /\ resps[i].total = 2500
       /\ Len(resps[i].rows) = Min(1000, 2500 - Offsets[i])

\* C9: fetchAll has at most one search request in flight; each request asks
\* for limit 1000 at the offset that is the number of rows received so far;
\* once the rows received are at least the total of the latest page, no
\* request follows and the result is the pages' rows in order.  A first page
\* with total 0 and no rows ends it after one request with an empty result,
\* and 2500 rows served 1000 at a time take three requests at 0, 1000, 2000.
C9_FetchAllPagination ==
  /\ Len(reqs) - Len(resps) = (IF fa.pc = "awaiting" THEN 1 ELSE 0)
  /\ \A i \in DOMAIN reqs :
       /\ reqs[i].method = <<"search">>
       /\ reqs[i].query = << <<"offset", Len(ConcatRows(SubSeq(resps, 1, i - 1)))>>,
                             <<"limit", 1000>> >>
  /\ fa.pc = "resolved" => fa.result = ConcatRows(resps)
  /\ (/\ resps # <<>>
      /\ IsPage(resps[Len(resps)])
      /\ resps[Len(resps)].total # NullNum
      /\ Len(ConcatRows(resps)) >= resps[Len(resps)].total)
       => (fa.pc = "resolved" /\ Len(reqs) = Len(resps))
  /\ (/\ resps # <<>>
      /\ IsPage(resps[1])
      /\ resps[1].total = 0
      /\ resps[1].rows = <<>>)
       => (fa.pc = "resolved" /\ Len(reqs) = 1 /\ fa.result = <<>>)
  /\ (Serves2500 /\ fa.pc = "resolved")
       => (Offsets = <<0, 1000, 2000>> /\ fa.result = [i \in 1..2500 |-> i])

C9_Witness ==
  /\ Serves2500
  /\ fa.pc = "resolved"
  /\ Len(reqs) = 3
  /\ Len(fa.result) = 2500

\* The failure a response that is not a page makes the loop body raise.
FailureOf(resp) ==
  CASE resp.kind = "networkError" -> NetworkError
    [] resp.kind = "notJSON" -> SyntaxError
    [] OTHER -> TypeError

\* C10: when a request of fetchAll fails, on any page, fetchAll rejects with
\* that failure, sends no request after it and hands the caller no rows.
C10_FetchAllFailsAsAWhole ==
  /\ []((resps # <<>> /\ ~IsPage(resps[Len(resps)]))
          => /\ fa.pc = "rejected"
             /\ fa.error = FailureOf(resps[Len(resps)])
             /\ fa.result = <<>>
             /\ Len(reqs) = Len(resps))
  /\ [](fa.pc = "rejected" => (fa.error # NoError /\ fa.result = <<>>))
  /\ [][fa.pc = "rejected" => (fa' = fa /\ reqs' = reqs)]_vars

C10_Witness ==
  /\ fa.pc = "rejected"
  /\ Len(resps) = 3
  /\ resps[3].kind = "networkError"
  /\ Len(ConcatRows(resps)) = 2000

\* C11: logout() can run in every state; it leaves both this.token and
\* this.links null, starts no request and touches no login in progress; run
\* again, it leaves the state as the first run left it.
C11_LogoutClearsAndIsIdempotent ==
  /\ [](ENABLED Logout)
  /\ [](sinceLogout => (token = Null /\ links = Null))
  /\ [][(~sinceLogout /\ sinceLogout')
          => (call' = NoCall /\ UNCHANGED <<logins, listeners, fa, reqs, resps>>)]_vars
  /\ [][(sinceLogout /\ Logout)
          => UNCHANGED <<token, links, logins, listeners, sinceLogout, writer,
                         fa, reqs, resps>>]_vars

C11_Witness ==
  /\ sinceLogout
  /\ token = Null
  /\ links = Null
  /\ \E l \in Logins : logins[l].pc = "resolved" /\ logins[l].access_token = "tokA"

\* C13: the grant of one authorization_response message is posted to the
\* token endpoint by one login() call only: a message does not make two
\* logins send a token request.
C13_GrantConsumedOnce ==
  [][Cardinality({l \in Logins : /\ logins[l].pc = "waitAuth"
                                 /\ logins'[l].pc = "tokenFetch"}) <= 1]_vars

\* C14: no failure leaves request() (or login, fetchAll) as an exception
\* thrown out of the call; it is the rejection of the returned promise.
C14_FailuresAreRejections ==
  call.kind # "throw" /\ fa.pc # "threw" /\ \A l \in Logins : logins[l].pc # "threw"

\* C15: a login whose token response has no access_token, or whose discovery
\* response has no links, does not resolve and stores no undefined token or
\* route table.
C15_MalformedResponseFailsLogin ==
  /\ token # Undefined
  /\ links # Undefined
  /\ \A l \in Logins : logins[l].pc = "resolved" => logins[l].access_token # Undefined

\* C18: when this.token and this.links are both populated, the same login()
\* call assigned both.
C18_TokenAndRoutesFromOneLogin ==
  (token \notin {Null, Undefined} /\ links \notin {Null, Undefined})
    => writer.token = writer.links

\* C19: after logout(), a login() call that was made before it does not
\* assign this.token or this.links; they stay null until a login made after
\* the logout completes.
C19_LogoutNotUndoneByEarlierLogin ==
  [][\A l \in Logins :
       (sinceLogout /\ l <= atLogout /\ logins'[l] # logins[l])
         => (token' = Null /\ links' = Null)]_vars

\* The node the segments of method lead to from node, own properties only.
RECURSIVE NodeAt(_, _, _)
NodeAt(node, method, i) ==
  IF i > Len(method) THEN node ELSE NodeAt(Heap[node][method[i]], method, i + 1)

\* method names an operation of the route table tab: its segments are all
\* present in order and lead to a leaf, which gives a verb and a URL.
NamesLeaf(tab, method) ==
  /\ IsObject(tab)
  /\ InTable(tab, method, 1)
  /\ IsObject(NodeAt(tab, method, 1))
  /\ {"method", "url"} \subseteq DOMAIN Heap[NodeAt(tab, method, 1)]

C17_FetchAllTerminates ==
  (fa.pc = "awaiting") ~> (fa.pc \in {"resolved", "rejected"})

\* The login submit made last.
LastChain == CHOOSE l \in Logins :
  /\ chain[l].pc # "none"
  /\ \A k \in Logins : k > l => chain[k].pc = "none"

\* C16: when the chain of a login submit fails (the login rejects, the
\* profile.read request fails or request() throws), the component is left
\* with authorizing = false, fetching = false and error set to the failure;
\* as long as no new login is submitted, both flags stay false and an error
\* stays rendered.
C16_FailureResetsFlags ==
  /\ [][\A l \in Logins :
          (chain[l].pc \in {"login", "profile"} /\ chain'[l].pc = "failed")
            => /\ ~ui'.authorizing
               /\ ~ui'.fetching
               /\ ui'.error = chain'[l].error
               /\ ErrorRendered(ui')]_vars
  /\ []((chain[1].pc # "none" /\ chain[LastChain].pc = "failed")
          => (~ui.authorizing /\ ~ui.fetching /\ ErrorRendered(ui)))

C16_Witness ==
  \E l \in Logins :
    /\ chain[l].pc = "failed"
    /\ logins[l].pc = "resolved"
    /\ ui.isLoggedIn
    /\ ui.error = NetworkError
    /\ ~ui.authorizing
    /\ ~ui.fetching

\* C20: whenever no operation is in flight (authorizing and fetching are both
\* false), the login form is rendered (isLoggedIn is false) or the profile
\* view with its Logout button is rendered (profile is not null).
C20_UserIsNeverStranded ==
  (~ui.authorizing /\ ~ui.fetching) => (~ui.isLoggedIn \/ ui.profile # Null)

====
